---- MODULE Spec2Model ----
(***************************************************************************)
(* Model of app.py, the Streamlit page of the multimodal fake news         *)
(* detector.  The page is a script that Streamlit runs from top to bottom  *)
(* on every user interaction; the widgets keep their values between runs,  *)
(* everything else is recomputed.  A run that reaches a remote model call  *)
(* (llm.invoke, search_agent.run) waits there until the call returns or    *)
(* raises; that is where the model splits a run into steps.  The user acts *)
(* between runs, when the script has ended or stopped on an exception.     *)
(*                                                                         *)
(* Python's None is the empty sequence and a value v is <<v>>.  A string   *)
(* that the code inspects (the agent's response) is a sequence of          *)
(* one-character strings; a string the code only passes on is a TLA+       *)
(* string.                                                                 *)
(***************************************************************************)
EXTENDS Naturals, Sequences, FiniteSets

(* Longest agent response of the model, in pieces of Pieces. *)
MaxPieces == 2

None == <<>>
Some(v) == <<v>>

--------------------------------------------------------------------------
(* Strings: str.upper(), str.split(), the `in` operator on a list. *)

Whitespace == {" ", "\n", "\t"}

UpperChar(c) ==
    CASE c = "a" -> "A" [] c = "e" -> "E" [] c = "f" -> "F"
      [] c = "k" -> "K" [] c = "l" -> "L" [] c = "r" -> "R"
      [] OTHER -> c

(* The response compared as it came, without upper(). *)
UpperIdentity(s) == s

(* response.upper() *)
Upper(s) == [i \in 1..Len(s) |-> UpperChar(s[i])]

RECURSIVE SplitFrom(_, _, _)
SplitFrom(s, i, cur) ==
    IF i > Len(s)
    THEN IF cur = <<>> THEN <<>> ELSE <<cur>>
    ELSE IF s[i] \in Whitespace
         THEN IF cur = <<>>
              THEN SplitFrom(s, i + 1, <<>>)
              ELSE <<cur>> \o SplitFrom(s, i + 1, <<>>)
         ELSE SplitFrom(s, i + 1, Append(cur, s[i]))

(* Every non-empty substring of s in place of its whitespace-delimited
   tokens: a substring search, `"FAKE" in response.upper()`. *)
SplitSubstrings(s) ==
    IF Len(s) = 0 THEN <<>>
    ELSE LET n == Len(s)
             sub(k) == LET i == ((k - 1) \div n) + 1
                           j == ((k - 1) % n) + 1
                       IN IF i <= j THEN SubSeq(s, i, j) ELSE SubSeq(s, j, i)
         IN [k \in 1..(n * n) |-> sub(k)]

(* s.split(): the maximal runs of non-whitespace characters, in order. *)
Split(s) == SplitFrom(s, 1, <<>>)

(* x in list *)
In(x, list) == \E i \in 1..Len(list) : list[i] = x

FAKE == <<"F", "A", "K", "E">>
REAL == <<"R", "E", "A", "L">>

(* The two keyword tests in the other order. *)
VerdictRealFirst(response) ==
    IF In(REAL, Split(Upper(response))) THEN "real"
    ELSE IF In(FAKE, Split(Upper(response))) THEN "fake"
    ELSE "uncertain"

(* The if / elif / else that picks the tag's CSS class. *)
Verdict(response) ==
    IF In(FAKE, Split(Upper(response))) THEN "fake"
    ELSE IF In(REAL, Split(Upper(response))) THEN "real"
    ELSE "uncertain"

(* The image tab repeats the same three branches. *)
ImageVerdict(response) ==
    IF In(FAKE, Split(Upper(response))) THEN "fake"
    ELSE IF In(REAL, Split(Upper(response))) THEN "real"
    ELSE "uncertain"

--------------------------------------------------------------------------
(* The values the user and the remote services can supply. *)

(* Fragments of an answer; two of them carry the blank that separates words. *)
Pieces ==
    { FAKE, <<" ", "f", "a", "k", "e">>, REAL, <<"R", "e", "a", "l", " ">>,
      <<".">>, <<"\n">>, <<"U", "N", "C", "E", "R", "T", "A", "I", "N">> }

RECURSIVE Concat(_)
Concat(ps) == IF ps = <<>> THEN <<>> ELSE Head(ps) \o Concat(Tail(ps))

ApiKeys == {"", "sk-typed"}
EnvKeys == {"", "sk-env"}
Models == {"gpt-4o", "gpt-4-turbo", "gpt-3.5-turbo"}
NewsTexts == {"", "claim"}
Contexts == {"", "caption"}
Images ==
    { [name |-> "photo.jpg", mode |-> "RGB"],
      [name |-> "logo.png", mode |-> "RGBA"] }
Uploads == {None} \cup {Some(f) : f \in Images}
Descriptions == {"", "a crowd"}

--------------------------------------------------------------------------
VARIABLES
    search_tool_available,  \* the DuckDuckGo import succeeded
    default_api_key,        \* os.getenv("OPENAI_API_KEY", "")
    openai_api_key,         \* the key the functions read
    model_choice,           \* the sidebar's selectbox
    news_text,              \* the text tab's text area
    uploaded_image,         \* the image tab's file uploader
    image_context,          \* the image tab's text area
    button,                 \* the button whose click started this run
    pc,                     \* where this run of the script is
    messages,               \* st.warning / st.error / st.success boxes of this run
    image_analysis,         \* analyze_image's return value
    search_agent,           \* verify_news's first return value
    prompt,                 \* verify_news's second return value
    agent_input,            \* the argument search_agent.run was called with
    response,               \* search_agent.run's return value
    tag,                    \* the verdict tag on the page
    written,                \* what st.write(response) put on the page
    exception,              \* the exception that left the script, if any
    events                  \* what this run did, in order

vars ==
    << search_tool_available, default_api_key, openai_api_key, model_choice,
       news_text, uploaded_image, image_context, button, pc, messages,
       image_analysis, search_agent, prompt, agent_input, response, tag,
       written, exception, events >>

environment == << search_tool_available, default_api_key >>
widgets == << openai_api_key, model_choice, news_text, uploaded_image, image_context >>

Message(kind, about, by) == [kind |-> kind, about |-> about, by |-> by]

(* The import check at the top of the script. *)
StartupMessages(available) ==
    IF available THEN <<>>
    ELSE << Message("warning", "search_unavailable", "startup") >>

(* The sidebar's boxes. *)
SidebarMessages(env_key, available) ==
    (IF env_key = ""
     THEN << Message("warning", "no_api_key", "sidebar") >>
     ELSE << Message("success", "key_detected", "sidebar") >>)
    \o (IF available THEN <<>>
        ELSE << Message("error", "search_unavailable", "sidebar") >>)

PageTop == StartupMessages(search_tool_available)
           \o SidebarMessages(default_api_key, search_tool_available)

(* search, and wiki *)
search == IF search_tool_available THEN Some("Search") ELSE None
wiki == "wikipedia"

(* `is not None` in place of truthiness. *)
TruthyNotNone(opt) == opt # None

(* if image_analysis: neither None nor the empty string *)
Truthy(opt) == opt # None /\ opt[1] # ""

--------------------------------------------------------------------------
(* verify_news *)

(* The tool list without the unconditional append of wiki. *)
ToolsSearchOnly(s) == IF s # None THEN << s[1] >> ELSE <<>>

(* tools = []; append search if there is one; append wiki *)
Tools(s) == (IF s # None THEN << s[1] >> ELSE <<>>) \o << wiki >>

(* A template that does not interpolate the content. *)
PromptWithoutContent(content, analysis) ==
    IF analysis # None /\ analysis[1] # ""
    THEN << "Verify if the following content is genuine or fake news:",
            "NEWS CONTENT: ", "IMAGE ANALYSIS: ", analysis[1],
            "Steps and format" >>
    ELSE << "Verify if the following content is genuine or fake news:",
            "NEWS CONTENT: ", "Steps and format" >>

(* The two prompt templates, as the segments the f-string joins. *)
Prompt(content, analysis) ==
    IF Truthy(analysis)
    THEN << "Verify if the following content is genuine or fake news:",
            "NEWS CONTENT: " >> \o content
         \o << "IMAGE ANALYSIS: ", analysis[1], "Steps and format" >>
    ELSE << "Verify if the following content is genuine or fake news:",
            "NEWS CONTENT: " >> \o content
         \o << "Steps and format" >>

(* verify_news without its check of the key. *)
VerifyNewsNoKeyCheck(key, model, s, content, analysis) ==
    [ search_agent |->
          Some([ tools |-> Tools(s),
                 llm |-> [model |-> model, api_key |-> key] ]),
      prompt |-> Some(Prompt(content, analysis)),
      messages |-> <<>> ]

(* if not openai_api_key: error and (None, None); else the agent over the
   tools and the prompt. *)
VerifyNews(key, model, s, content, analysis) ==
    IF key = ""
    THEN [ search_agent |-> None, prompt |-> None,
           messages |-> << Message("error", "no_api_key", "verify_news") >> ]
    ELSE [ search_agent |->
               Some([ tools |-> Tools(s),
                      llm |-> [model |-> model, api_key |-> key] ]),
           prompt |-> Some(Prompt(content, analysis)),
           messages |-> <<>> ]

(* content_to_verify of the image tab *)
ContentToVerify(context, analysis) ==
    << "Image context: ", context, "Image appears to show: ", analysis >>

(* Image.save(format="JPEG") refuses an image with an alpha channel. *)
SavesAsJpeg(f) == f.mode # "RGBA"

--------------------------------------------------------------------------
(* One run of the script, from the top to its first remote call or its end. *)

Resting == pc \in {"done", "crashed"}

(* The button alone, whatever the text area holds. *)
TextSubmittedAnyText(clicked, text) == clicked

(* if verify_text_button and news_text *)
TextSubmitted(clicked, text) == clicked /\ text # ""

(* The upload alone, whichever button was clicked. *)
ImageSubmittedAnyButton(clicked, upload) == upload # None

(* if verify_image_button and uploaded_image *)
ImageSubmitted(clicked, upload) == clicked /\ upload # None

(* The answers the agent can give: up to MaxPieces pieces, joined. *)
Responses ==
    UNION { { Concat(ps) : ps \in [1..n -> Pieces] } : n \in 0..MaxPieces }

Init ==
    /\ search_tool_available \in BOOLEAN
    /\ default_api_key \in EnvKeys
    /\ openai_api_key = default_api_key
    /\ model_choice = "gpt-4o"
    /\ news_text = ""
    /\ uploaded_image = None
    /\ image_context = ""
    /\ button = "none"
    /\ pc = "done"
    /\ messages = PageTop
    /\ image_analysis = None
    /\ search_agent = None
    /\ prompt = None
    /\ agent_input = None
    /\ response = None
    /\ tag = "none"
    /\ written = None
    /\ exception = "none"
    /\ events = <<>>

(* The image tab's block, up to llm.invoke in analyze_image; msgs and evs are
   what the run has shown and done before it. *)
ImageTab(b, key, upload, msgs, evs) ==
    /\ image_analysis' = None
    /\ IF ~ImageSubmitted(b = "analyze_image", upload)
       THEN /\ pc' = "done"
            /\ messages' = msgs
            /\ events' = evs
            /\ exception' = "none"
       ELSE IF ~SavesAsJpeg(upload[1])
       THEN /\ pc' = "crashed"
            /\ messages' = msgs
            /\ events' = evs \o << "input", "convert_raised" >>
            /\ exception' = "Image.save"
       ELSE IF key = ""
       THEN /\ pc' = "done"
            /\ messages' = Append(msgs,
                                  Message("error", "no_api_key", "analyze_image"))
            /\ events' = evs \o << "input", "convert", "analyze_image" >>
            /\ exception' = "none"
       ELSE /\ pc' = "image_llm_invoke"
            /\ messages' = msgs
            /\ events' = evs \o << "input", "convert", "analyze_image",
                                   "llm_invoke" >>
            /\ exception' = "none"

(* The script from its first line, with button b clicked (or none) and the
   widgets holding the given values: the text tab's block up to
   search_agent.run, or else on into the image tab's block. *)
RunScript(b, key, model, text, upload) ==
    /\ button' = b
    /\ response' = None
    /\ tag' = "none"
    /\ written' = None
    /\ UNCHANGED environment
    /\ IF TextSubmitted(b = "verify_text", text)
       THEN LET limited ==
                    IF search_tool_available THEN <<>>
                    ELSE << Message("warning", "search_unavailable", "text_tab") >>
                r == VerifyNews(key, model, search, << text >>, None)
            IN /\ search_agent' = r.search_agent
               /\ prompt' = r.prompt
               /\ IF r.search_agent # None /\ r.prompt # None
                  THEN /\ pc' = "text_agent_run"
                       /\ agent_input' = r.prompt
                       /\ messages' = PageTop \o limited \o r.messages
                       /\ events' = << "input", "verify_news", "prompt_built",
                                       "agent_run" >>
                       /\ exception' = "none"
                       /\ image_analysis' = None
                  ELSE /\ agent_input' = None
                       /\ ImageTab(b, key, upload,
                                   PageTop \o limited \o r.messages,
                                   << "input", "verify_news" >>)
       ELSE /\ search_agent' = None
            /\ prompt' = None
            /\ agent_input' = None
            /\ ImageTab(b, key, upload, PageTop, <<>>)

--------------------------------------------------------------------------
(* The user changes a widget: the script runs with both buttons False. *)

(* The sidebar shows the key field only when the environment has no key. *)
EnterApiKey == \E k \in ApiKeys :
    /\ Resting
    /\ default_api_key = ""
    /\ k # openai_api_key
    /\ openai_api_key' = k
    /\ RunScript("none", k, model_choice, news_text, uploaded_image)
    /\ UNCHANGED << model_choice, news_text, uploaded_image, image_context >>

SelectModel == \E m \in Models :
    /\ Resting
    /\ m # model_choice
    /\ model_choice' = m
    /\ RunScript("none", openai_api_key, m, news_text, uploaded_image)
    /\ UNCHANGED << openai_api_key, news_text, uploaded_image, image_context >>

EditNewsText == \E t \in NewsTexts :
    /\ Resting
    /\ t # news_text
    /\ news_text' = t
    /\ RunScript("none", openai_api_key, model_choice, t, uploaded_image)
    /\ UNCHANGED << openai_api_key, model_choice, uploaded_image, image_context >>

UploadImage == \E f \in Uploads :
    /\ Resting
    /\ f # uploaded_image
    /\ uploaded_image' = f
    /\ RunScript("none", openai_api_key, model_choice, news_text, f)
    /\ UNCHANGED << openai_api_key, model_choice, news_text, image_context >>

EditImageContext == \E c \in Contexts :
    /\ Resting
    /\ c # image_context
    /\ image_context' = c
    /\ RunScript("none", openai_api_key, model_choice, news_text, uploaded_image)
    /\ UNCHANGED << openai_api_key, model_choice, news_text, uploaded_image >>

--------------------------------------------------------------------------
(* The text tab. *)

ClickVerifyText ==
    /\ Resting
    /\ RunScript("verify_text", openai_api_key, model_choice, news_text,
                 uploaded_image)
    /\ UNCHANGED widgets

(* search_agent.run returns the agent's answer. *)
TextAgentReturns == \E r \in Responses :
    /\ pc = "text_agent_run"
    /\ response' = Some(r)
    /\ events' = Append(events, "agent_returned")
    /\ pc' = "text_returned"
    /\ UNCHANGED << environment, widgets, button, messages, image_analysis,
                    search_agent, prompt, agent_input, tag, written, exception >>

(* search_agent.run raises: nothing in the script catches it. *)
TextAgentRaises ==
    /\ pc = "text_agent_run"
    /\ exception' = "search_agent.run"
    /\ events' = Append(events, "agent_raised")
    /\ pc' = "crashed"
    /\ UNCHANGED << environment, widgets, button, messages, image_analysis,
                    search_agent, prompt, agent_input, response, tag, written >>

(* The verdict tag of the text tab. *)
TextShowVerdict ==
    /\ pc = "text_returned"
    /\ tag' = Verdict(response[1])
    /\ events' = Append(events, "tag")
    /\ pc' = "text_tagged"
    /\ UNCHANGED << environment, widgets, button, messages, image_analysis,
                    search_agent, prompt, agent_input, response, written,
                    exception >>

(* st.write(response), and the script goes on into the image tab's block. *)
TextWriteResponse ==
    /\ pc = "text_tagged"
    /\ written' = response
    /\ ImageTab(button, openai_api_key, uploaded_image, messages,
                Append(events, "write"))
    /\ UNCHANGED << environment, widgets, button, search_agent, prompt,
                    agent_input, response, tag >>

--------------------------------------------------------------------------
(* The image tab. *)

ClickAnalyzeImage ==
    /\ Resting
    /\ RunScript("analyze_image", openai_api_key, model_choice, news_text,
                 uploaded_image)
    /\ UNCHANGED widgets

(* llm.invoke returns; analyze_image returns response.content; the tab goes on
   to verify_news and search_agent.run when the description is not empty. *)
ImageLlmReturns == \E d \in Descriptions :
    /\ pc = "image_llm_invoke"
    /\ image_analysis' = Some(d)
    /\ UNCHANGED << environment, widgets, button, response, tag, written,
                    exception >>
    /\ IF ~Truthy(Some(d))
       THEN /\ pc' = "done"
            /\ events' = Append(events, "llm_returned")
            /\ UNCHANGED << messages, search_agent, prompt, agent_input >>
       ELSE LET r == VerifyNews(openai_api_key, model_choice, search,
                                ContentToVerify(image_context, d), Some(d))
            IN /\ messages' = messages \o r.messages
               /\ search_agent' = r.search_agent
               /\ prompt' = r.prompt
               /\ IF r.search_agent # None /\ r.prompt # None
                  THEN /\ pc' = "image_agent_run"
                       /\ agent_input' = r.prompt
                       /\ events' = events \o << "llm_returned", "write_analysis",
                                                 "verify_news", "prompt_built",
                                                 "agent_run" >>
                  ELSE /\ pc' = "done"
                       /\ agent_input' = None
                       /\ events' = events \o << "llm_returned", "write_analysis",
                                                 "verify_news" >>

(* llm.invoke raises: analyze_image catches it, shows it and returns None. *)
ImageLlmRaises ==
    /\ pc = "image_llm_invoke"
    /\ messages' = Append(messages,
                          Message("error", "image_analysis_failed", "analyze_image"))
    /\ image_analysis' = None
    /\ events' = Append(events, "llm_raised")
    /\ pc' = "done"
    /\ UNCHANGED << environment, widgets, button, search_agent, prompt,
                    agent_input, response, tag, written, exception >>

ImageAgentReturns == \E r \in Responses :
    /\ pc = "image_agent_run"
    /\ response' = Some(r)
    /\ events' = Append(events, "agent_returned")
    /\ pc' = "image_returned"
    /\ UNCHANGED << environment, widgets, button, messages, image_analysis,
                    search_agent, prompt, agent_input, tag, written, exception >>

(* search_agent.run raises: nothing in the script catches it. *)
ImageAgentRaises ==
    /\ pc = "image_agent_run"
    /\ exception' = "search_agent.run"
    /\ events' = Append(events, "agent_raised")
    /\ pc' = "crashed"
    /\ UNCHANGED << environment, widgets, button, messages, image_analysis,
                    search_agent, prompt, agent_input, response, tag, written >>

(* The verdict tag of the image tab. *)
ImageShowVerdict ==
    /\ pc = "image_returned"
    /\ tag' = ImageVerdict(response[1])
    /\ events' = Append(events, "tag")
    /\ pc' = "image_tagged"
    /\ UNCHANGED << environment, widgets, button, messages, image_analysis,
                    search_agent, prompt, agent_input, response, written,
                    exception >>

(* st.write(response); the footer ends the script. *)
ImageWriteResponse ==
    /\ pc = "image_tagged"
    /\ written' = response
    /\ events' = Append(events, "write")
    /\ pc' = "done"
    /\ UNCHANGED << environment, widgets, button, messages, image_analysis,
                    search_agent, prompt, agent_input, response, tag, exception >>

--------------------------------------------------------------------------
Next ==
    \/ EnterApiKey
    \/ SelectModel
    \/ EditNewsText
    \/ UploadImage
    \/ EditImageContext
    \/ ClickVerifyText
    \/ TextAgentReturns
    \/ TextAgentRaises
    \/ TextShowVerdict
    \/ TextWriteResponse
    \/ ClickAnalyzeImage
    \/ ImageLlmReturns
    \/ ImageLlmRaises
    \/ ImageAgentReturns
    \/ ImageAgentRaises
    \/ ImageShowVerdict
    \/ ImageWriteResponse

Spec == Init /\ [][Next]_vars

--------------------------------------------------------------------------
(* What the properties speak of. *)

Occurred(e) == In(e, events)
Count(e) == Cardinality({ i \in 1..Len(events) : events[i] = e })

(* Every occurrence of e comes after an occurrence of b. *)
PrecededBy(e, b) ==
    \A j \in 1..Len(events) :
        events[j] = e => \E i \in 1..(j - 1) : events[i] = b

TagShown == Occurred("tag")
Shown(m) == In(m, messages)
ShownAbout(a) == \E i \in 1..Len(messages) : messages[i].about = a

(* Letter case, for stating what does not depend on it. *)
LowerChar(c) ==
    CASE c = "A" -> "a" [] c = "E" -> "e" [] c = "F" -> "f"
      [] c = "K" -> "k" [] c = "L" -> "l" [] c = "R" -> "r"
      [] OTHER -> c

AllLower(s) == [i \in 1..Len(s) |-> LowerChar(s[i])]
AllUpper(s) == [i \in 1..Len(s) |-> UpperChar(s[i])]
SwapCase(s) ==
    [i \in 1..Len(s) |->
        IF LowerChar(s[i]) # s[i] THEN LowerChar(s[i]) ELSE UpperChar(s[i])]

(* w stands in s at position i, whatever its letter case. *)
OccursAt(s, w, i) ==
    /\ i + Len(w) - 1 <= Len(s)
    /\ AllLower(SubSeq(s, i, i + Len(w) - 1)) = AllLower(w)

Contains(s, w) == \E i \in 1..Len(s) : OccursAt(s, w, i)

(* w stands in s as a word of its own: the text's edge or a whitespace
   character on either side. *)
HasBareWord(s, w) ==
    \E i \in 1..Len(s) :
        /\ OccursAt(s, w, i)
        /\ i = 1 \/ s[i - 1] \in Whitespace
        /\ i + Len(w) - 1 = Len(s) \/ s[i + Len(w)] \in Whitespace

(* C1: once the verdict tag is shown, in the text tab or the image tab, it is
   one of the three tags and is the one the tokens of the upper-cased response
   decide: fake if FAKE is a token, else real if REAL is a token, else
   uncertain; FAKE wins over REAL. *)
C1_VerdictTagIsFunctionOfTokens ==
    TagShown =>
        LET tokens == Split(Upper(response[1]))
        IN /\ tag \in {"fake", "real", "uncertain"}
           /\ In(FAKE, tokens) => tag = "fake"
           /\ ~In(FAKE, tokens) /\ In(REAL, tokens) => tag = "real"
           /\ ~In(FAKE, tokens) /\ ~In(REAL, tokens) => tag = "uncertain"

C1_Witness ==
    /\ TagShown
    /\ button = "analyze_image"
    /\ In(FAKE, Split(Upper(response[1])))
    /\ In(REAL, Split(Upper(response[1])))
    /\ tag = "fake"

(* C2: in a run a button click started with an empty API key, no remote call
   is made, no verdict tag is shown, a message about the missing key is on the
   page, analyze_image (when reached) returned None and verify_news (when
   reached) returned (None, None), each after its own error box. *)
C2_MissingKeyShortCircuits ==
    (openai_api_key = "" /\ button # "none") =>
        /\ ~Occurred("llm_invoke")
        /\ ~Occurred("agent_run")
        /\ ~TagShown /\ tag = "none"
        /\ ShownAbout("no_api_key")
        /\ Occurred("analyze_image") =>
               /\ image_analysis = None
               /\ Shown(Message("error", "no_api_key", "analyze_image"))
        /\ Occurred("verify_news") =>
               /\ search_agent = None /\ prompt = None
               /\ Shown(Message("error", "no_api_key", "verify_news"))
        /\ (button = "verify_text" /\ news_text # "") => Occurred("verify_news")
        /\ (button = "analyze_image" /\ uploaded_image # None
            /\ exception = "none") => Occurred("analyze_image")

C2_Witness ==
    /\ openai_api_key = ""
    /\ button = "verify_text"
    /\ Occurred("verify_news")
    /\ pc = "done"

(* C3: an exception of a remote model call never leaves the script: after
   llm.invoke or search_agent.run raised, the run has not crashed and an error
   box of the page's own shows the failure. *)
C3_RemoteCallExceptionsAreShown ==
    (Occurred("llm_raised") \/ Occurred("agent_raised")) =>
        /\ pc # "crashed"
        /\ exception = "none"
        /\ \E i \in 1..Len(messages) :
               /\ messages[i].kind = "error"
               /\ messages[i].by \notin {"startup", "sidebar"}

(* C4: within a run the prompt is built after the input is taken, the agent is
   run after the prompt is built, the tag is shown after the agent returned and
   the response is written after the tag; the agent is handed the prompt
   verify_news returned, which carries this run's input, and what is written is
   the response the tag was decided on. *)
C4_FixedOrderOfEvents ==
    /\ PrecededBy("prompt_built", "input")
    /\ PrecededBy("agent_run", "prompt_built")
    /\ PrecededBy("agent_returned", "agent_run")
    /\ PrecededBy("tag", "agent_returned")
    /\ PrecededBy("write", "tag")
    /\ tag # "none" => TagShown /\ response # None
    /\ Occurred("agent_run") => agent_input # None /\ agent_input = prompt
    /\ (Occurred("agent_run") /\ button = "verify_text") =>
           In(news_text, agent_input[1])
    /\ (Occurred("agent_run") /\ button = "analyze_image") =>
           /\ In(image_context, agent_input[1])
           /\ In(image_analysis[1], agent_input[1])
    /\ written # None => written = response /\ Occurred("write")

C4_Witness ==
    /\ pc = "done"
    /\ button = "verify_text"
    /\ events = << "input", "verify_news", "prompt_built", "agent_run",
                   "agent_returned", "tag", "write" >>

(* C5: a click on Verify Text with an empty text area, or on Analyze Image
   with no upload, does nothing: no function is called, no remote call is
   made, the handler shows no message and no tag, and the run ends. *)
QuietRun ==
    /\ events = <<>>
    /\ tag = "none"
    /\ pc = "done"
    /\ exception = "none"
    /\ \A i \in 1..Len(messages) : messages[i].by \in {"startup", "sidebar"}

C5_EmptyInputIsNotSubmitted ==
    /\ (button = "verify_text" /\ news_text = "") => QuietRun
    /\ (button = "analyze_image" /\ uploaded_image = None) => QuietRun

C5_Witness ==
    /\ button = "verify_text"
    /\ news_text = ""
    /\ openai_api_key # ""
    /\ uploaded_image # None

(* C6: a run calls search_agent.run at most once and the image model at most
   once, a Verify Text run never enters analyze_image, a run no button started
   makes no call, and nothing follows a call that raised. *)
C6_SingleCyclePerAction ==
    /\ Count("agent_run") <= 1
    /\ Count("llm_invoke") <= 1
    /\ Count("analyze_image") <= 1
    /\ Count("verify_news") <= 1
    /\ button = "verify_text" =>
           ~Occurred("analyze_image") /\ ~Occurred("llm_invoke")
    /\ button = "none" => ~Occurred("agent_run") /\ ~Occurred("llm_invoke")
    /\ \A i \in 1..Len(events) :
           events[i] \in {"llm_raised", "agent_raised"} => i = Len(events)

C6_Witness ==
    /\ button = "analyze_image"
    /\ pc = "done"
    /\ Occurred("write")
    /\ Count("llm_invoke") = 1
    /\ Count("agent_run") = 1

(* C7: the tag shown for a response is the tag its all-lower-case, its
   all-upper-case and its case-swapped spelling select. *)
CaseVariants(s) == { AllLower(s), AllUpper(s), SwapCase(s) }

C7_VerdictIgnoresLetterCase ==
    TagShown =>
        \A v \in CaseVariants(response[1]) :
            (IF button = "verify_text" THEN Verdict(v) ELSE ImageVerdict(v)) = tag

C7_Witness ==
    /\ TagShown
    /\ tag = "fake"
    /\ ~In(FAKE, Split(response[1]))

(* C8: in the image tab, when analyze_image gave None or an empty description
   the run ends without verify_news, without the agent and without a tag; the
   agent runs there only after llm.invoke returned a non-empty description,
   and then on a prompt with the IMAGE ANALYSIS section, which a text tab
   prompt never has. *)
C8_ImagePathStopsWithoutDescription ==
    /\ (Occurred("analyze_image") /\ pc # "image_llm_invoke"
        /\ image_analysis \in {None, Some("")}) =>
           /\ ~Occurred("verify_news")
           /\ ~Occurred("agent_run")
           /\ tag = "none"
           /\ pc = "done"
    /\ (button = "analyze_image" /\ Occurred("agent_run")) =>
           /\ image_analysis \notin {None, Some("")}
           /\ PrecededBy("agent_run", "llm_returned")
           /\ In("IMAGE ANALYSIS: ", agent_input[1])
    /\ (button = "verify_text" /\ Occurred("agent_run")) =>
           ~In("IMAGE ANALYSIS: ", agent_input[1])

C8_Witness ==
    /\ button = "analyze_image"
    /\ Occurred("llm_returned")
    /\ image_analysis = Some("")
    /\ pc = "done"

(* C9: the tag follows the words that stand alone between whitespace: fake
   exactly when FAKE is such a word, real exactly when REAL is one and FAKE is
   not, uncertain exactly when neither is; FAKE or REAL joined to other
   characters decides nothing. *)
C9_KeywordsAreWholeTokens ==
    TagShown =>
        LET r == response[1]
        IN /\ tag = "fake" <=> HasBareWord(r, FAKE)
           /\ tag = "real" <=> ~HasBareWord(r, FAKE) /\ HasBareWord(r, REAL)
           /\ tag = "uncertain" <=> ~HasBareWord(r, FAKE) /\ ~HasBareWord(r, REAL)

C9_Witness ==
    /\ TagShown
    /\ Contains(response[1], FAKE)
    /\ ~HasBareWord(response[1], FAKE)
    /\ tag = "uncertain"

(* C10: an agent that was built has a tool list that is not empty, holds the
   Wikipedia tool, and holds the search tool exactly when the search package
   was importable; a missing search package shows its notices and changes
   nothing else: a submitted text with a key present still reaches the agent. *)
C10_ToolListNeverEmpty ==
    /\ search_agent # None =>
           LET tools == search_agent[1].tools
           IN /\ Len(tools) >= 1
              /\ In(wiki, tools)
              /\ In("Search", tools) <=> search_tool_available
    /\ ShownAbout("search_unavailable") <=> ~search_tool_available
    /\ (button = "verify_text" /\ news_text # "" /\ openai_api_key # "") =>
           search_agent # None /\ Occurred("agent_run")

C10_Witness ==
    /\ ~search_tool_available
    /\ button = "verify_text"
    /\ written # None
    /\ pc = "done"

====
